---- MODULE Spec2Model ----
(***************************************************************************)
(* Model of py_validate_batch_direct, the batch validation entry point of  *)
(* the dhi native CPython extension (python-bindings/dhi/_native.c).       *)
(*                                                                         *)
(* The call is modelled as a state machine over the C function's locals,   *)
(* the two malloc'ed buffers, the CPython error indicator and the return   *)
(* value.  Inputs (the record list, the rule dict and the behaviour of an  *)
(* undefined validator call) are drawn in Init.                            *)
(***************************************************************************)
EXTENDS Integers, Sequences, FiniteSets, TLC

\* ------------------------------------------------------------------ bounds
MaxRecords == 2

\* ------------------------------------------------- enum ValidatorType
VAL_INT == 0
VAL_INT_GT == 1
VAL_INT_GTE == 2
VAL_INT_LT == 3
VAL_INT_LTE == 4
VAL_INT_POSITIVE == 5
VAL_INT_NON_NEGATIVE == 6
VAL_INT_MULTIPLE_OF == 7
VAL_STRING == 8
VAL_EMAIL == 9
VAL_URL == 10
VAL_UUID == 11
VAL_IPV4 == 12
VAL_BASE64 == 13
VAL_ISO_DATE == 14
VAL_ISO_DATETIME == 15
VAL_UNKNOWN == 16

\* A C string is a sequence of one-character strings, so that the switch on
\* type_str[0] and the strcmp calls of parse_validator_type are both modelled.
N_int == <<"i","n","t">>
N_int_gt == <<"i","n","t","_","g","t">>
N_int_gte == <<"i","n","t","_","g","t","e">>
N_int_lt == <<"i","n","t","_","l","t">>
N_int_lte == <<"i","n","t","_","l","t","e">>
N_int_positive == <<"i","n","t","_","p","o","s","i","t","i","v","e">>
N_int_non_negative == <<"i","n","t","_","n","o","n","_","n","e","g","a","t","i","v","e">>
N_int_multiple_of == <<"i","n","t","_","m","u","l","t","i","p","l","e","_","o","f">>
N_ipv4 == <<"i","p","v","4">>
N_iso_date == <<"i","s","o","_","d","a","t","e">>
N_iso_datetime == <<"i","s","o","_","d","a","t","e","t","i","m","e">>
N_string == <<"s","t","r","i","n","g">>
N_email == <<"e","m","a","i","l">>
N_url == <<"u","r","l">>
N_uuid == <<"u","u","i","d">>
N_base64 == <<"b","a","s","e","6","4">>

\* parse_validator_type with the default of the function changed: an
\* unrecognised name resolves to a real validator instead of VAL_UNKNOWN.
ParseValidatorTypeStrict(type_str) ==
    IF type_str = N_int_lt THEN VAL_INT_LT
    ELSE IF type_str = N_email THEN VAL_EMAIL
    ELSE IF type_str = N_string THEN VAL_STRING
    ELSE VAL_INT_POSITIVE

\* parse_validator_type: switch on the first character, then strcmp.
ParseValidatorType(type_str) ==
    LET c == IF Len(type_str) = 0 THEN "" ELSE type_str[1] IN
    CASE c = "i" ->
           IF type_str = N_int THEN VAL_INT
           ELSE IF type_str = N_int_gt THEN VAL_INT_GT
           ELSE IF type_str = N_int_gte THEN VAL_INT_GTE
           ELSE IF type_str = N_int_lt THEN VAL_INT_LT
           ELSE IF type_str = N_int_lte THEN VAL_INT_LTE
           ELSE IF type_str = N_int_positive THEN VAL_INT_POSITIVE
           ELSE IF type_str = N_int_non_negative THEN VAL_INT_NON_NEGATIVE
           ELSE IF type_str = N_int_multiple_of THEN VAL_INT_MULTIPLE_OF
           ELSE IF type_str = N_ipv4 THEN VAL_IPV4
           ELSE IF type_str = N_iso_date THEN VAL_ISO_DATE
           ELSE IF type_str = N_iso_datetime THEN VAL_ISO_DATETIME
           ELSE VAL_UNKNOWN
      [] c = "s" -> IF type_str = N_string THEN VAL_STRING ELSE VAL_UNKNOWN
      [] c = "e" -> IF type_str = N_email THEN VAL_EMAIL ELSE VAL_UNKNOWN
      [] c = "u" ->
           IF type_str = N_url THEN VAL_URL
           ELSE IF type_str = N_uuid THEN VAL_UUID
           ELSE VAL_UNKNOWN
      [] c = "b" -> IF type_str = N_base64 THEN VAL_BASE64 ELSE VAL_UNKNOWN
      [] OTHER -> VAL_UNKNOWN

\* ------------------------------------------------------- Python objects
\* A field value as the C code sees it: an int object, a str object, or the
\* NULL that PyDict_GetItem returns for an absent key.
IntObj(n) == [t |-> "int", n |-> n, s |-> ""]
StrObj(s) == [t |-> "str", n |-> 0, s |-> s]
NullObj == [t |-> "null", n |-> 0, s |-> ""]

\* PyLong_AsLong: the value of an int object; -1 with the error indicator set
\* for an object that is not an integer.
PyLong_AsLong(o) ==
    IF o.t = "int" THEN [v |-> o.n, e |-> FALSE] ELSE [v |-> -1, e |-> TRUE]

\* PyUnicode_AsUTF8: the characters of a str object; NULL with the error
\* indicator set for any other object.
PyUnicode_AsUTF8(o) ==
    IF o.t = "str" THEN [null |-> FALSE, s |-> o.s, e |-> FALSE]
    ELSE [null |-> TRUE, s |-> "", e |-> TRUE]

\* PyDict_Check with the test dropped.
PyDict_CheckAlways(item) == TRUE

\* PyDict_Check(item)
PyDict_Check(item) == item.dict

\* PyDict_GetItem(item, key): borrowed value, NULL when the key is absent (or
\* when item is not a dict); it leaves the error indicator as it found it.
PyDict_GetItem(item, key) ==
    IF item.dict THEN item.fields[key] ELSE NullObj

\* ------------------------------------------- primitive validators (libsatya)
\* The library is not part of the extension's source; each validator follows
\* the catalogue of the specification.  A call whose behaviour the catalogue
\* leaves undefined (NULL string pointer, zero divisor) yields what the build
\* does in that case: a crash, a zero or a non-zero return.
Ret(b) == [is_valid |-> IF b THEN 1 ELSE 0, crash |-> FALSE]
Undefined(u) == [is_valid |-> IF u = "one" THEN 1 ELSE 0, crash |-> u = "crash"]

EmailStrings == {"a@b.co"}

satya_validate_int(value, min, max) == Ret(min <= value /\ value <= max)
satya_validate_int_gt(value, min) == Ret(value > min)
satya_validate_int_gte(value, min) == Ret(value >= min)
satya_validate_int_lt(value, max) == Ret(value < max)
satya_validate_int_lte(value, max) == Ret(value <= max)
satya_validate_int_positive(value) == Ret(value > 0)
satya_validate_int_non_negative(value) == Ret(value >= 0)
satya_validate_int_multiple_of(value, divisor, u) ==
    IF divisor = 0 THEN Undefined(u)
    ELSE Ret(value % (IF divisor < 0 THEN -divisor ELSE divisor) = 0)
\* min_len and max_len arrive as (size_t)param: a negative long becomes a
\* value above every string length.
satya_validate_string_length(str, min_len, max_len, u) ==
    IF str.null THEN Undefined(u)
    ELSE Ret((min_len >= 0 /\ min_len <= Len(str.s)) /\
             (max_len < 0 \/ Len(str.s) <= max_len))
satya_validate_email(str, u) ==
    IF str.null THEN Undefined(u) ELSE Ret(str.s \in EmailStrings)
\* url, uuid, ipv4, base64, iso_date, iso_datetime: none of the strings of the
\* model is in one of these formats.
satya_validate_format(str, u) ==
    IF str.null THEN Undefined(u) ELSE Ret(FALSE)

IntKinds == {VAL_INT, VAL_INT_GT, VAL_INT_GTE, VAL_INT_LT, VAL_INT_LTE,
             VAL_INT_POSITIVE, VAL_INT_NON_NEGATIVE, VAL_INT_MULTIPLE_OF}
StrKinds == {VAL_STRING, VAL_EMAIL, VAL_URL, VAL_UUID, VAL_IPV4, VAL_BASE64,
             VAL_ISO_DATE, VAL_ISO_DATETIME}

\* --------------------------------------------------- struct FieldSpec
\* One compiled entry.  A descriptor is [tuple, elems]: whether the dict value
\* is a tuple, and its elements (kind name first, then the integer params).
PyTuple_Size(spec) == Len(spec.elems)

\* Body of the PyDict_Next loop for one (field_name, spec) pair.  When the
\* descriptor is not a non-empty tuple param1 and param2 are left unset; they
\* are never read, since VAL_UNKNOWN dispatches without params (written 0).
CompileSpec(field_name, spec) ==
    IF spec.tuple /\ PyTuple_Size(spec) >= 1
    THEN [field_name_obj |-> field_name,
          validator_type |-> ParseValidatorType(spec.elems[1]),
          param1 |-> IF PyTuple_Size(spec) >= 2
                     THEN PyLong_AsLong(IntObj(spec.elems[2])).v ELSE 0,
          param2 |-> IF PyTuple_Size(spec) >= 3
                     THEN PyLong_AsLong(IntObj(spec.elems[3])).v ELSE 0]
    ELSE [field_name_obj |-> field_name, validator_type |-> VAL_UNKNOWN,
          param1 |-> 0, param2 |-> 0]

\* The whole PyDict_Next loop: one entry per dict item, in iteration order.
CompileAll(dict) ==
    [k \in 1..Len(dict) |-> CompileSpec(dict[k].name, dict[k].spec)]

\* ------------------------------------------------------ switch dispatch
\* The switch on validator_type for one present field value: the conversion
\* of the value (which may set the error indicator) and the validator call.
Dispatch(fs, field_value, u) ==
    LET vt == fs.validator_type
        l == PyLong_AsLong(field_value)
        str == PyUnicode_AsUTF8(field_value)
        WithErr(r, e) == [is_valid |-> r.is_valid, crash |-> r.crash, e |-> e]
    IN CASE vt = VAL_INT ->
              WithErr(satya_validate_int(l.v, fs.param1, fs.param2), l.e)
         [] vt = VAL_INT_GT -> WithErr(satya_validate_int_gt(l.v, fs.param1), l.e)
         [] vt = VAL_INT_GTE -> WithErr(satya_validate_int_gte(l.v, fs.param1), l.e)
         [] vt = VAL_INT_LT -> WithErr(satya_validate_int_lt(l.v, fs.param1), l.e)
         [] vt = VAL_INT_LTE -> WithErr(satya_validate_int_lte(l.v, fs.param1), l.e)
         [] vt = VAL_INT_POSITIVE -> WithErr(satya_validate_int_positive(l.v), l.e)
         [] vt = VAL_INT_NON_NEGATIVE ->
              WithErr(satya_validate_int_non_negative(l.v), l.e)
         [] vt = VAL_INT_MULTIPLE_OF ->
              WithErr(satya_validate_int_multiple_of(l.v, fs.param1, u), l.e)
         [] vt = VAL_STRING ->
              WithErr(satya_validate_string_length(str, fs.param1, fs.param2, u),
                      str.e)
         [] vt = VAL_EMAIL -> WithErr(satya_validate_email(str, u), str.e)
         [] vt \in {VAL_URL, VAL_UUID, VAL_IPV4, VAL_BASE64, VAL_ISO_DATE,
                    VAL_ISO_DATETIME} ->
              WithErr(satya_validate_format(str, u), str.e)
         [] OTHER -> [is_valid |-> 1, crash |-> FALSE, e |-> FALSE]

\* One iteration of the field loop up to the validity test: the lookup, then
\* (for a present field) the dispatch.  kind is "missing", "pass", "fail" or
\* "crash"; e tells whether a conversion set the error indicator.
CheckField(item, fs, u) ==
    LET field_value == PyDict_GetItem(item, fs.field_name_obj) IN
    IF field_value = NullObj THEN [kind |-> "missing", e |-> FALSE]
    ELSE LET d == Dispatch(fs, field_value, u) IN
         [kind |-> IF d.crash THEN "crash"
                   ELSE IF d.is_valid = 0 THEN "fail" ELSE "pass",
          e |-> d.e]

\* The field loop with a missing field treated as "skip this rule".
StepEffectSkipMissing(kind) ==
    IF kind = "fail" THEN [invalid |-> TRUE, brk |-> TRUE]
    ELSE [invalid |-> FALSE, brk |-> FALSE]

\* The field loop without its break statements.
StepEffectNoBreak(kind) ==
    IF kind \in {"missing", "fail"} THEN [invalid |-> TRUE, brk |-> FALSE]
    ELSE [invalid |-> FALSE, brk |-> FALSE]

\* What the two if-blocks of the field loop do with the outcome of one rule:
\* whether the record is marked invalid and whether the loop breaks.
StepEffect(kind) ==
    IF kind \in {"missing", "fail"} THEN [invalid |-> TRUE, brk |-> TRUE]
    ELSE [invalid |-> FALSE, brk |-> FALSE]

\* The marking with the decrement left unguarded and the flag not cleared.
MarkInvalidCountOnly(res, vc, idx) ==
    [results |-> res, valid_count |-> vc - 1]

\* if (results[i] == 1) { results[i] = 0; valid_count--; }   (idx is 0-based)
MarkInvalid(res, vc, idx) ==
    IF res[idx + 1] = 1
    THEN [results |-> [res EXCEPT ![idx + 1] = 0], valid_count |-> vc - 1]
    ELSE [results |-> res, valid_count |-> vc]

\* ---------------------------------------------------------- heap buffers
\* A malloc'ed buffer: "none" (never allocated / NULL), "live" or "freed",
\* with the number of free() calls made on it.
NoBuf == [state |-> "none", frees |-> 0]
LiveBuf == [state |-> "live", frees |-> 0]

\* A cleanup path that forgets the free.
FreeForgotten(b) == b

\* free(ptr)
Free(b) == [state |-> "freed", frees |-> b.frees + 1]

\* malloc(n): a zero-sized request may return NULL or a unique pointer; a
\* positive one returns NULL only when memory is exhausted.
MallocOutcomes(n) ==
    IF n = 0 THEN {"null", "ptr"} ELSE {"exhausted", "ptr"}

\* ------------------------------------------------------------- inputs
Fields == {"a", "b"}
Values == {NullObj, IntObj(1), StrObj("a@b.co")}
NotADict == [dict |-> FALSE, fields |-> [k \in Fields |-> NullObj]]
Items == {[dict |-> TRUE, fields |-> m] : m \in [Fields -> Values]} \cup {NotADict}

N_iso == <<"i","s","o">>
Descs == {[tuple |-> FALSE, elems |-> <<>>],
          [tuple |-> TRUE, elems |-> <<>>],
          [tuple |-> TRUE, elems |-> <<N_iso>>],
          [tuple |-> TRUE, elems |-> <<N_int_lt, 0>>],
          [tuple |-> TRUE, elems |-> <<N_int_positive>>],
          [tuple |-> TRUE, elems |-> <<N_email>>],
          [tuple |-> TRUE, elems |-> <<N_string, 1, 2>>]}

\* A rule dict in iteration order: entries with pairwise distinct keys.
RuleDicts ==
    UNION {{d \in [1..n -> [name : Fields, spec : Descs]] :
              \A x, y \in 1..n : x # y => d[x].name # d[y].name} :
           n \in 0..Cardinality(Fields)}
ItemLists == UNION {[1..n -> Items] : n \in 0..MaxRecords}
UndefinedOutcomes == {"crash", "zero", "one"}

\* -------------------------------------------------------------- state
VARIABLES items_list, field_specs_dict, undef, pc, specs_buf, results_buf,
          field_specs, results, valid_count, i, f, result_list, err, ret,
          exhausted, uaf, trace

vars == <<items_list, field_specs_dict, undef, pc, specs_buf, results_buf,
          field_specs, results, valid_count, i, f, result_list, err, ret,
          exhausted, uaf, trace>>

count == Len(items_list)
num_fields == Len(field_specs_dict)

NoRet == [kind |-> "none", outcomes |-> <<>>, validCount |-> 0]
NullRet == [kind |-> "null", outcomes |-> <<>>, validCount |-> 0]
TupleRet(list, n) == [kind |-> "tuple", outcomes |-> list, validCount |-> n]

Init ==
    /\ items_list \in ItemLists
    /\ field_specs_dict \in RuleDicts
    /\ undef \in UndefinedOutcomes
    /\ pc = "entry"
    /\ specs_buf = NoBuf
    /\ results_buf = NoBuf
    /\ field_specs = <<>>
    /\ results = <<>>
    /\ valid_count = 0
    /\ i = 0
    /\ f = 0
    /\ result_list = <<>>
    /\ err = "none"
    /\ ret = NoRet
    /\ exhausted = FALSE
    /\ uaf = FALSE
    /\ trace = <<>>

\* count == 0: return ([], 0) before anything is allocated.
EmptyList ==
    /\ pc = "entry"
    /\ count = 0
    /\ ret' = TupleRet(<<>>, 0)
    /\ pc' = "done"
    /\ UNCHANGED <<items_list, field_specs_dict, undef, specs_buf, results_buf,
                   field_specs, results, valid_count, i, f, result_list, err,
                   exhausted, uaf, trace>>

\* field_specs = malloc(num_fields * sizeof ...); NULL -> PyErr_NoMemory().
AllocSpecs ==
    /\ pc = "entry"
    /\ count # 0
    /\ \E m \in MallocOutcomes(num_fields) :
         IF m = "ptr"
         THEN /\ specs_buf' = LiveBuf
              /\ pc' = "compile"
              /\ UNCHANGED <<err, ret, exhausted>>
         ELSE /\ err' = "MemoryError"
              /\ ret' = NullRet
              /\ exhausted' = (exhausted \/ m = "exhausted")
              /\ pc' = "done"
              /\ UNCHANGED specs_buf
    /\ UNCHANGED <<items_list, field_specs_dict, undef, results_buf,
                   field_specs, results, valid_count, i, f, result_list, uaf,
                   trace>>

\* The PyDict_Next loop filling field_specs.
Compile ==
    /\ pc = "compile"
    /\ field_specs' = CompileAll(field_specs_dict)
    /\ uaf' = (uaf \/ (num_fields > 0 /\ specs_buf.state # "live"))
    /\ pc' = "alloc_results"
    /\ UNCHANGED <<items_list, field_specs_dict, undef, specs_buf, results_buf,
                   results, valid_count, i, f, result_list, err, ret,
                   exhausted, trace>>

\* results = malloc(count); NULL -> free(field_specs), PyErr_NoMemory().
\* Otherwise every flag is set to 1 and valid_count = count.
AllocResults ==
    /\ pc = "alloc_results"
    /\ \E m \in MallocOutcomes(count) :
         IF m = "ptr"
         THEN /\ results_buf' = LiveBuf
              /\ results' = [k \in 1..count |-> 1]
              /\ valid_count' = count
              /\ i' = 0
              /\ pc' = "item"
              /\ UNCHANGED <<specs_buf, err, ret, exhausted>>
         ELSE /\ specs_buf' = Free(specs_buf)
              /\ err' = "MemoryError"
              /\ ret' = NullRet
              /\ exhausted' = (exhausted \/ m = "exhausted")
              /\ pc' = "done"
              /\ UNCHANGED <<results_buf, results, valid_count, i>>
    /\ UNCHANGED <<items_list, field_specs_dict, undef, field_specs, f,
                   result_list, uaf, trace>>

\* Head of the record loop for a dict: enter the field loop at f = 0.
CheckItem ==
    /\ pc = "item"
    /\ i < count
    /\ PyDict_Check(items_list[i + 1])
    /\ f' = 0
    /\ pc' = "rule"
    /\ UNCHANGED <<items_list, field_specs_dict, undef, specs_buf, results_buf,
                   field_specs, results, valid_count, i, result_list, err, ret,
                   exhausted, uaf, trace>>

\* Head of the record loop for a non-dict: free both buffers, TypeError.
RejectItem ==
    /\ pc = "item"
    /\ i < count
    /\ ~PyDict_Check(items_list[i + 1])
    /\ specs_buf' = Free(specs_buf)
    /\ results_buf' = Free(results_buf)
    /\ err' = "TypeError"
    /\ ret' = NullRet
    /\ pc' = "done"
    /\ UNCHANGED <<items_list, field_specs_dict, undef, field_specs, results,
                   valid_count, i, f, result_list, exhausted, uaf, trace>>

\* What one iteration of the field loop appends to the log of lookups and
\* validator invocations.
Events(idx, fld, r) ==
    IF r.kind = "missing"
    THEN <<[i |-> idx, f |-> fld, ev |-> "lookup", res |-> "missing"]>>
    ELSE <<[i |-> idx, f |-> fld, ev |-> "lookup", res |-> "found"],
           [i |-> idx, f |-> fld, ev |-> "validate", res |-> r.kind]>>

\* One iteration of the field loop: lookup, dispatch, marking, break.
RuleStep ==
    /\ pc = "rule"
    /\ f < num_fields
    /\ LET r == CheckField(items_list[i + 1], field_specs[f + 1], undef)
           eff == StepEffect(r.kind)
           m == MarkInvalid(results, valid_count, i)
       IN /\ trace' = trace \o Events(i, f, r)
          /\ err' = IF r.e THEN "TypeError" ELSE err
          /\ uaf' = (uaf \/ specs_buf.state # "live"
                         \/ results_buf.state # "live")
          /\ IF r.kind = "crash"
             THEN /\ pc' = "crashed"
                  /\ UNCHANGED <<results, valid_count, i, f>>
             ELSE /\ results' = IF eff.invalid THEN m.results ELSE results
                  /\ valid_count' = IF eff.invalid THEN m.valid_count
                                    ELSE valid_count
                  /\ IF eff.brk
                     THEN /\ i' = i + 1
                          /\ pc' = "item"
                          /\ UNCHANGED f
                     ELSE /\ f' = f + 1
                          /\ UNCHANGED <<i, pc>>
    /\ UNCHANGED <<items_list, field_specs_dict, undef, specs_buf, results_buf,
                   field_specs, result_list, ret, exhausted>>

\* f == num_fields: the field loop ends, the record loop advances.
EndRules ==
    /\ pc = "rule"
    /\ f >= num_fields
    /\ i' = i + 1
    /\ pc' = "item"
    /\ UNCHANGED <<items_list, field_specs_dict, undef, specs_buf, results_buf,
                   field_specs, results, valid_count, f, result_list, err, ret,
                   exhausted, uaf, trace>>

\* PyList_New(count) and the loop storing Py_True / Py_False.  A NULL list
\* (memory exhausted) is written through by PyList_SET_ITEM.
BuildList ==
    /\ pc = "item"
    /\ i >= count
    /\ \E m \in MallocOutcomes(count) :
         IF m = "ptr"
         THEN /\ result_list' = [k \in 1..count |-> results[k] # 0]
              /\ pc' = "cleanup"
              /\ UNCHANGED <<err, exhausted>>
         ELSE /\ err' = "MemoryError"
              /\ exhausted' = TRUE
              /\ pc' = "crashed"
              /\ UNCHANGED result_list
    /\ uaf' = (uaf \/ results_buf.state # "live")
    /\ UNCHANGED <<items_list, field_specs_dict, undef, specs_buf, results_buf,
                   field_specs, results, valid_count, i, f, ret, trace>>

\* free(field_specs); free(results); return (result_list, valid_count).
Cleanup ==
    /\ pc = "cleanup"
    /\ specs_buf' = Free(specs_buf)
    /\ results_buf' = Free(results_buf)
    /\ ret' = TupleRet(result_list, valid_count)
    /\ pc' = "done"
    /\ UNCHANGED <<items_list, field_specs_dict, undef, field_specs, results,
                   valid_count, i, f, result_list, err, exhausted, uaf, trace>>

Next ==
    \/ EmptyList
    \/ AllocSpecs
    \/ Compile
    \/ AllocResults
    \/ CheckItem
    \/ RejectItem
    \/ RuleStep
    \/ EndRules
    \/ BuildList
    \/ Cleanup

Spec == Init /\ [][Next]_vars

TypeOK ==
    /\ pc \in {"entry", "compile", "alloc_results", "item", "rule", "cleanup",
               "done", "crashed"}
    /\ valid_count \in Int
    /\ err \in {"none", "TypeError", "MemoryError"}

\* ------------------------------------------------ reference evaluations
\* The field loop of one record run to its end, as a function: whether the
\* record stays valid, whether a validator call crashed, and whether a
\* conversion set the error indicator.  With short = FALSE the loop is run
\* with its break statements disabled (every rule is looked up and invoked).
RECURSIVE EvalFrom(_, _, _, _, _)
EvalFrom(item, specs, u, short, fld) ==
    IF fld >= Len(specs)
    THEN [valid |-> TRUE, crash |-> FALSE, e |-> FALSE]
    ELSE LET r == CheckField(item, specs[fld + 1], u)
             eff == StepEffect(r.kind)
         IN IF r.kind = "crash"
            THEN [valid |-> FALSE, crash |-> TRUE, e |-> r.e]
            ELSE IF eff.brk /\ short
            THEN [valid |-> ~eff.invalid, crash |-> FALSE, e |-> r.e]
            ELSE LET rest == EvalFrom(item, specs, u, short, fld + 1) IN
                 [valid |-> ~eff.invalid /\ rest.valid,
                  crash |-> rest.crash,
                  e |-> r.e \/ rest.e]

EvalItem(item, specs, u, short) == EvalFrom(item, specs, u, short, 0)

\* ------------------------------------------------------------ vocabulary
KnownNames == {N_int, N_int_gt, N_int_gte, N_int_lt, N_int_lte, N_int_positive,
               N_int_non_negative, N_int_multiple_of, N_ipv4, N_iso_date,
               N_iso_datetime, N_string, N_email, N_url, N_uuid, N_base64}
Unrecognized(spec) ==
    ~(spec.tuple /\ Len(spec.elems) >= 1) \/ spec.elems[1] \notin KnownNames
RemoveAt(seq, k) ==
    [j \in 1..(Len(seq) - 1) |-> IF j < k THEN seq[j] ELSE seq[j + 1]]
Perms(n) == {p \in [1..n -> 1..n] : \A x, y \in 1..n : x # y => p[x] # p[y]}
Permuted(seq, p) == [j \in 1..Len(seq) |-> seq[p[j]]]
HasField(item, name) == item.dict /\ item.fields[name] # NullObj
HasNonDict == \E k \in 1..count : ~items_list[k].dict
FirstBad == CHOOSE k \in 1..count :
               ~items_list[k].dict /\ \A j \in 1..(k - 1) : items_list[j].dict
\* Record k (1-based) has been through the field loop and its flag is final.
Processed(k) ==
    /\ results_buf.state = "live"
    /\ pc \in {"item", "rule", "cleanup", "crashed"}
    /\ k <= i
Returned == pc = "done" /\ ret.kind = "tuple"
Zeros == {k \in 1..count : results[k] = 0}
WrongType(item, fs) ==
    LET v == PyDict_GetItem(item, fs.field_name_obj) IN
    /\ v # NullObj
    /\ \/ (fs.validator_type \in IntKinds /\ v.t # "int")
       \/ (fs.validator_type \in StrKinds /\ v.t # "str")

\* ----------------------------------------------------------------- C1
\* C1: on a successful return validCount is the number of true outcomes; while
\* the outcome buffer is live valid_count equals count minus the number of
\* flags cleared so far (so no record is counted off twice) and is never
\* negative.
C1_CountConsistency ==
    /\ results_buf.state = "live" =>
         /\ valid_count = count - Cardinality(Zeros)
         /\ valid_count >= 0
    /\ Returned =>
         ret.validCount =
           Cardinality({k \in DOMAIN ret.outcomes : ret.outcomes[k]})

C1_Witness ==
    /\ Returned
    /\ count = 2
    /\ ret.validCount = 1
    /\ \E k \in 1..count : ~ret.outcomes[k]

\* ----------------------------------------------------------------- C2
\* C2: a dict record lacking a field named by any entry of the rule dict ends
\* with its flag cleared once it has been processed, and is reported false on
\* return, whatever the other rules are and wherever the entry sits.
C2_MissingFieldStrict ==
    \A k \in 1..count :
      (/\ items_list[k].dict
       /\ \E x \in 1..num_fields :
            ~HasField(items_list[k], field_specs_dict[x].name))
      => /\ Processed(k) => results[k] = 0
         /\ Returned => ~ret.outcomes[k]

\* A returned batch with a record whose first rule passes and whose second
\* rule, of Unknown kind, names a field the record lacks.
C2_Witness ==
    /\ Returned
    /\ num_fields = 2
    /\ \E k \in 1..count :
         /\ CheckField(items_list[k], field_specs[1], undef).kind = "pass"
         /\ ~HasField(items_list[k], field_specs_dict[2].name)
         /\ field_specs[2].validator_type = VAL_UNKNOWN
         /\ ~ret.outcomes[k]

\* ----------------------------------------------------------------- C8
\* C8: the log of lookups and validator invocations is ordered by record and,
\* within a record, by position in the compiled list; after a missing lookup
\* or a failed validation every later entry belongs to a later record; a rule
\* beyond the first is looked up only after its predecessor passed; and on
\* return every record has had its first rule looked up.
C8_ShortCircuit ==
    /\ \A x, y \in 1..Len(trace) :
         x < y =>
           /\ trace[x].i <= trace[y].i
           /\ trace[x].i = trace[y].i => trace[x].f <= trace[y].f
           /\ trace[x].res \in {"missing", "fail"} => trace[x].i < trace[y].i
    /\ \A y \in 1..Len(trace) :
         (trace[y].ev = "lookup" /\ trace[y].f > 0) =>
           \E x \in 1..(y - 1) :
             /\ trace[x].i = trace[y].i
             /\ trace[x].f = trace[y].f - 1
             /\ trace[x].res = "pass"
    /\ (Returned /\ num_fields > 0) =>
         \A k \in 1..count :
           \E x \in 1..Len(trace) : trace[x].i = k - 1 /\ trace[x].f = 0

\* The first record failed its first rule with a second rule pending, and the
\* second record has been looked at since.
C8_Witness ==
    /\ num_fields = 2
    /\ \E x, y \in 1..Len(trace) :
         /\ x < y
         /\ trace[x].i = 0 /\ trace[x].f = 0 /\ trace[x].res = "fail"
         /\ trace[y].i = 1

\* ----------------------------------------------------------------- C9
\* C9: neither buffer is freed twice or touched when not live, and when the
\* call has returned (by any of its return statements) each buffer is either
\* never allocated or freed exactly once.
C9_ReleasedOnce ==
    /\ specs_buf.frees <= 1
    /\ results_buf.frees <= 1
    /\ ~uaf
    /\ pc = "done" =>
         /\ specs_buf.state # "live"
         /\ results_buf.state # "live"
         /\ specs_buf.state = "freed" => specs_buf.frees = 1
         /\ results_buf.state = "freed" => results_buf.frees = 1

\* The outcome buffer could not be allocated: the compiled list alone was
\* live and has been released.
C9_Witness ==
    /\ pc = "done"
    /\ err = "MemoryError"
    /\ specs_buf = [state |-> "freed", frees |-> 1]
    /\ results_buf = NoBuf

\* ----------------------------------------------------------------- C7
\* C7: when the list holds a non-dict, nothing is ever looked up or validated
\* for that element or a later one, a returned call has returned NULL (no
\* outcomes, no count), and once the record loop has run (the outcome buffer
\* was allocated) the return is the TypeError raised at the first non-dict.
C7_NonDictAborts ==
    HasNonDict =>
      /\ \A x \in 1..Len(trace) : trace[x].i < FirstBad - 1
      /\ pc = "done" =>
           /\ ret = NullRet
           /\ results_buf.frees = 1 => (err = "TypeError" /\ i = FirstBad - 1)

\* The second element is the non-dict and the first record had already been
\* marked invalid when the call was aborted.
C7_Witness ==
    /\ pc = "done"
    /\ count = 2
    /\ items_list[1].dict
    /\ ~items_list[2].dict
    /\ err = "TypeError"
    /\ ret = NullRet
    /\ results[1] = 0

\* ----------------------------------------------------------------- C4
\* C4 as stated: for every entry whose kind is unrecognised and every
\* processed record, the record's flag is what the field loop yields over the
\* rule dict with that entry removed.
C4_UnknownRemovable ==
    \A x \in 1..num_fields :
      Unrecognized(field_specs_dict[x].spec) =>
        \A k \in 1..count :
          Processed(k) =>
            LET ev == EvalItem(items_list[k],
                               CompileAll(RemoveAt(field_specs_dict, x)),
                               undef, TRUE)
            IN ~ev.crash /\ (ev.valid <=> results[k] = 1)

\* C4 amended: for every entry whose kind is unrecognised and every processed
\* record in which that entry's field is present, the record's flag is what
\* the field loop yields over the rule dict with that entry removed (a record
\* lacking the field fails under the missing-field rule).
C4_UnknownRemovableWhenPresent ==
    \A x \in 1..num_fields :
      Unrecognized(field_specs_dict[x].spec) =>
        \A k \in 1..count :
          (Processed(k) /\ HasField(items_list[k], field_specs_dict[x].name)) =>
            LET ev == EvalItem(items_list[k],
                               CompileAll(RemoveAt(field_specs_dict, x)),
                               undef, TRUE)
            IN ~ev.crash /\ (ev.valid <=> results[k] = 1)

\* A processed record holding a str under an unrecognised kind name, followed
\* by a second rule, and still valid.
C4_Witness ==
    /\ pc = "cleanup"
    /\ num_fields = 2
    /\ field_specs_dict[1].spec = [tuple |-> TRUE, elems |-> <<N_iso>>]
    /\ \E k \in 1..count :
         /\ HasField(items_list[k], field_specs_dict[1].name)
         /\ items_list[k].fields[field_specs_dict[1].name].t = "str"
         /\ results[k] = 1

\* ----------------------------------------------------------------- C3
\* C3 as stated: a record holding, under an integer rule, a value that is not
\* an int (or under a string rule a value that is not a str) has, once it is
\* processed, its flag cleared and no error pending; and the call, when the
\* list holds only dicts and memory is not exhausted, returns its tuple with
\* the error indicator clear and that record reported false.
C3_WrongTypeIsSoft ==
    \A k \in 1..count :
      (/\ items_list[k].dict
       /\ \E x \in 1..num_fields :
            WrongType(items_list[k],
                      CompileSpec(field_specs_dict[x].name,
                                  field_specs_dict[x].spec)))
      => /\ Processed(k) => (results[k] = 0 /\ err = "none")
         /\ (pc = "done" /\ ~HasNonDict /\ ~exhausted) =>
              (ret.kind = "tuple" /\ err = "none" /\ ~ret.outcomes[k])

\* ----------------------------------------------------------------- C5
\* C5 as stated: when the call returns its tuple with the error indicator
\* clear, the same call over any permutation of the rule dict's iteration
\* order also completes every record without a crash or a pending error and
\* with the same flag (hence the same validCount).
C5_OrderInvariant ==
    (Returned /\ err = "none") =>
      \A p \in Perms(num_fields) :
        \A k \in 1..count :
          LET ev == EvalItem(items_list[k],
                             CompileAll(Permuted(field_specs_dict, p)),
                             undef, TRUE)
          IN ~ev.crash /\ ~ev.e /\ (ev.valid <=> ret.outcomes[k])

C10_EmptyRulesSucceed ==
    (/\ pc \in {"done", "crashed"}
     /\ count > 0
     /\ ~HasNonDict
     /\ num_fields = 0
     /\ ~exhausted)
    => /\ Returned
       /\ err = "none"
       /\ ret.validCount = count
       /\ \A k \in 1..count : ret.outcomes[k]
====
